---- MODULE Spec2Model ----
(***************************************************************************)
(* Tide extraction of lib/tides.ts: fetchTideData, parseTidePage,          *)
(* parseTodayTable, parseNextDaysTable and the cell parsers parseCoeff     *)
(* and parseTimeHeight.                                                    *)
(*                                                                         *)
(* A text is a sequence of characters (one-character strings).  The        *)
(* document is represented by what the cheerio selectors of parseTidePage  *)
(* yield: the text of the heading, the rows of each table as sequences of  *)
(* the texts of their td cells, and the text of the footer block.  An      *)
(* absent element yields the empty text / the empty sequence of rows.      *)
(***************************************************************************)
EXTENDS Integers, Sequences, FiniteSets, TLC

VARIABLES pc, res, data, err, text, th

vars == <<pc, res, data, err, text, th>>

---------------------------------------------------------------------------
(* Bounds of the model *)

\* longest cell text enumerated character by character
MaxLen == 6

\* most rows of today's table
MaxRows == 2

\* most rows of the forecast table
MaxNextRows == 3

\* most pieces a forecast label is put together from
MaxLabelTokens == 3

\* most pieces a footer text is put together from
MaxFooterTokens == 4

---------------------------------------------------------------------------
(* Characters and regular-expression character classes *)

Digits == <<"0", "1", "2", "3", "4", "5", "6", "7", "8", "9">>

DigitSet == {Digits[k] : k \in 1..10}

\* \d
IsDigit(c) == c \in DigitSet

\* \s (and the characters String.prototype.trim removes)
IsSpace(c) == c \in {" ", "\n", "\t"}

\* [\d,]
IsNumChar(c) == IsDigit(c) \/ c = ","

DigitVal(c) == (CHOOSE k \in 1..10 : Digits[k] = c) - 1

UpperCase == <<"A", "B", "C", "D", "E", "F", "G", "H", "I", "J", "K", "L", "M", "N", "O", "P", "Q", "R", "S", "T", "U", "V", "W", "X", "Y", "Z", "É">>
LowerCase == <<"a", "b", "c", "d", "e", "f", "g", "h", "i", "j", "k", "l", "m", "n", "o", "p", "q", "r", "s", "t", "u", "v", "w", "x", "y", "z", "é">>

FoldMap ==
  [c \in {UpperCase[k] : k \in 1..Len(UpperCase)} |->
     LowerCase[CHOOSE k \in 1..Len(UpperCase) : UpperCase[k] = c]]

\* canonical form of a character under the i flag
Fold(c) == IF c \in DOMAIN FoldMap THEN FoldMap[c] ELSE c

\* the literal word matches at position i of t, ignoring case
WordAt(t, i, word) ==
  /\ i >= 1
  /\ i + Len(word) - 1 <= Len(t)
  /\ \A k \in 1..Len(word) : Fold(t[i + k - 1]) = Fold(word[k])

Min(S) == CHOOSE x \in S : \A y \in S : x <= y
Max(S) == CHOOSE x \in S : \A y \in S : x >= y

\* the value JavaScript gives an optional field that is not set
Undefined == <<"undefined">>

---------------------------------------------------------------------------
(* parseCoeff *)

\* parseInt(s, 10) of a run of decimal digits
RECURSIVE ParseInt(_)
ParseInt(s) ==
  IF s = <<>> THEN 0
  ELSE ParseInt(SubSeq(s, 1, Len(s) - 1)) * 10 + DigitVal(s[Len(s)])

\* text.match(/(\d+)/): the leftmost digit starts the match, + is greedy
DigitRunEnd(t, i) ==
  Max({e \in i..Len(t) : \A p \in i..e : IsDigit(t[p])})

parseCoeff(t) ==
  LET starts == {i \in 1..Len(t) : IsDigit(t[i])}
  IN  IF starts = {} THEN 0
      ELSE LET i == Min(starts)
           IN  ParseInt(SubSeq(t, i, DigitRunEnd(t, i)))

---------------------------------------------------------------------------
(* parseTimeHeight *)

\* /(\d{2}h\d{2})/ matches at position i
TimeAt(t, i) ==
  /\ i >= 1
  /\ i + 4 <= Len(t)
  /\ IsDigit(t[i])
  /\ IsDigit(t[i + 1])
  /\ t[i + 2] = "h"
  /\ IsDigit(t[i + 3])
  /\ IsDigit(t[i + 4])

\* text.match(/(\d{2}h\d{2})/): position of the leftmost match, 0 for null
RECURSIVE MatchTimeFrom(_, _)
MatchTimeFrom(t, i) ==
  IF i + 4 > Len(t) THEN 0
  ELSE IF TimeAt(t, i) THEN i
  ELSE MatchTimeFrom(t, i + 1)

\* a matcher that keeps the last occurrence instead of the first
MatchTime_last(t) ==
  LET hits == {i \in 1..Len(t) : TimeAt(t, i)}
  IN  IF hits = {} THEN 0 ELSE Max(hits)

MatchTime(t) == MatchTimeFrom(t, 1)

\* /([\d,]+)\s*m/ matches at position i with group 1 = t[i..e]
HeightGroupAt(t, i, e) ==
  /\ i <= e
  /\ e <= Len(t)
  /\ \A p \in i..e : IsNumChar(t[p])
  /\ \E k \in (e + 1)..Len(t) :
       /\ \A p \in (e + 1)..(k - 1) : IsSpace(t[p])
       /\ t[k] = "m"

\* text.match(/([\d,]+)\s*m/): <<i, e>> of group 1 of the leftmost match,
\* the longest group first (+ is greedy); <<0, 0>> for null
MatchHeight(t) ==
  LET starts == {i \in 1..Len(t) : \E e \in i..Len(t) : HeightGroupAt(t, i, e)}
  IN  IF starts = {} THEN <<0, 0>>
      ELSE LET i == Min(starts)
           IN  <<i, Max({e \in i..Len(t) : HeightGroupAt(t, i, e)})>>

TimeSentinel == <<"-", "-">>
HeightSentinel == <<"-", "-", " ", "m">>

parseTimeHeight(t) ==
  LET timeMatch == MatchTime(t)
      heightMatch == MatchHeight(t)
  IN  [lowTime   |-> IF timeMatch # 0 THEN SubSeq(t, timeMatch, timeMatch + 4)
                     ELSE TimeSentinel,
       lowHeight |-> IF heightMatch # <<0, 0>>
                     THEN SubSeq(t, heightMatch[1], heightMatch[2]) \o <<" ", "m">>
                     ELSE HeightSentinel]

\* the two fields filled crosswise
prefixKeys_swapped(obj) ==
  [highTime |-> obj.lowHeight, highHeight |-> obj.lowTime]

\* prefixKeys(obj, "high")
prefixKeys(obj) ==
  [highTime |-> obj.lowTime, highHeight |-> obj.lowHeight]

---------------------------------------------------------------------------
(* parseTodayTable *)

\* String.prototype.trim
Trim(t) ==
  LET keep == {i \in 1..Len(t) : ~IsSpace(t[i])}
  IN  IF keep = {} THEN <<>> ELSE SubSeq(t, Min(keep), Max(keep))

\* { coeff: parseCoeff(c), ...parseTimeHeight(low), ...prefixKeys(parseTimeHeight(high), "high") }
halfDay(coeffCell, lowCell, highCell) ==
  [coeff      |-> parseCoeff(coeffCell),
   lowTime    |-> parseTimeHeight(lowCell).lowTime,
   lowHeight  |-> parseTimeHeight(lowCell).lowHeight,
   highTime   |-> prefixKeys(parseTimeHeight(highCell)).highTime,
   highHeight |-> prefixKeys(parseTimeHeight(highCell)).highHeight]

\* rows.first().find("td") in place of rows.last().find("td")
dataRow_first(rows) == IF rows = <<>> THEN <<>> ELSE rows[1]

\* rows.last().find("td"): the td cells of the last tr, none without a tr
dataRow(rows) == IF rows = <<>> THEN <<>> ELSE rows[Len(rows)]

\* the check cells.length < 7 in place of cells.length < 6
parseTodayTable_seven(rows, label) ==
  LET cells == dataRow(rows)
  IN  IF Len(cells) < 7
      THEN [thrown |-> TRUE, found |-> Len(cells)]
      ELSE [thrown |-> FALSE,
            day |-> [label     |-> label,
                     morning   |-> halfDay(cells[1], cells[2], cells[3]),
                     afternoon |-> halfDay(cells[4], cells[5], cells[6])]]

parseTodayTable(rows, label) ==
  LET cells == dataRow(rows)
  IN  IF Len(cells) < 6
      THEN [thrown |-> TRUE, found |-> Len(cells)]
      ELSE [thrown |-> FALSE,
            day |-> [label     |-> label,
                     morning   |-> halfDay(cells[1], cells[2], cells[3]),
                     afternoon |-> halfDay(cells[4], cells[5], cells[6])]]

---------------------------------------------------------------------------
(* parseNextDaysTable *)

Demain == <<"D", "e", "m", "a", "i", "n">>

\* .replace(/^Demain\s*/i, "")
stripDemain(t) ==
  IF WordAt(t, 1, Demain)
  THEN LET rest == {i \in (Len(Demain) + 1)..Len(t) : ~IsSpace(t[i])}
       IN  IF rest = {} THEN <<>> ELSE SubSeq(t, Min(rest), Len(t))
  ELSE t

\* the marker stripped before the text is trimmed
nextDayLabel_stripFirst(cellText) == Trim(stripDemain(cellText))

\* $(cells[0]).text().trim().replace(/^Demain\s*/i, "")
nextDayLabel(cellText) == stripDemain(Trim(cellText))

nextDay(cells) ==
  [label     |-> nextDayLabel(cells[1]),
   morning   |-> halfDay(cells[2], cells[3], cells[4]),
   afternoon |-> halfDay(cells[5], cells[6], cells[7])]

\* rows.each(...): rows with fewer than 7 td cells return early
RECURSIVE eachRow(_, _)
eachRow(rows, days) ==
  IF rows = <<>> THEN days
  ELSE LET cells == Head(rows)
       IN  eachRow(Tail(rows),
                   IF Len(cells) < 7 THEN days ELSE Append(days, nextDay(cells)))

\* a day is pushed only when no equal day was pushed before
RECURSIVE eachRow_dedup(_, _)
eachRow_dedup(rows, days) ==
  IF rows = <<>> THEN days
  ELSE LET cells == Head(rows)
       IN  eachRow_dedup(Tail(rows),
             IF Len(cells) < 7 \/ \E k \in 1..Len(days) : days[k] = nextDay(cells)
             THEN days ELSE Append(days, nextDay(cells)))

parseNextDaysTable_dedup(rows) == eachRow_dedup(rows, <<>>)

parseNextDaysTable(rows) == eachRow(rows, <<>>)

---------------------------------------------------------------------------
(* parseTidePage *)

TodayPhrase == <<"M", "a", "r", "é", "e", " ", "a", "u", "j", "o", "u", "r", "d", "'", "h", "u", "i">>

\* todayHeaderText.replace(/Marée aujourd[']hui/i, "").trim()
todayDateOf(heading) ==
  LET hits == {i \in 1..Len(heading) : WordAt(heading, i, TodayPhrase)}
  IN  IF hits = {} THEN Trim(heading)
      ELSE LET i == Min(hits)
           IN  Trim(SubSeq(heading, 1, i - 1)
                    \o SubSeq(heading, i + Len(TodayPhrase), Len(heading)))

LeverDuSoleil == <<"L", "e", "v", "e", "r", " ", "d", "u", " ", "s", "o", "l", "e", "i", "l">>
CoucherDuSoleil == <<"C", "o", "u", "c", "h", "e", "r", " ", "d", "u", " ", "s", "o", "l", "e", "i", "l">>

\* \d{2}:\d{2} at position d
ClockAt(t, d) ==
  /\ d >= 1
  /\ d + 4 <= Len(t)
  /\ IsDigit(t[d])
  /\ IsDigit(t[d + 1])
  /\ t[d + 2] = ":"
  /\ IsDigit(t[d + 3])
  /\ IsDigit(t[d + 4])

\* /<keyword>[^:]*:\s*(\d{2}:\d{2})/i tried at position i: the position of
\* group 1, 0 when the pattern fails there.  [^:]* runs to the first colon and
\* \s* to the first character that is no whitespace; giving characters back
\* cannot help, as the next pattern element never matches what was given back.
sunAt(t, i, keyword) ==
  IF ~WordAt(t, i, keyword) THEN 0
  ELSE LET colons == {c \in (i + Len(keyword))..Len(t) : t[c] = ":"}
       IN  IF colons = {} THEN 0
           ELSE LET c == Min(colons)
                    after == {d \in (c + 1)..Len(t) : ~IsSpace(t[d])}
                IN  IF after = {} THEN 0
                    ELSE IF ClockAt(t, Min(after)) THEN Min(after) ELSE 0

\* footerText.match(...)?.[1]
RECURSIVE sunFrom(_, _, _)
sunFrom(t, i, keyword) ==
  IF i > Len(t) THEN Undefined
  ELSE LET d == sunAt(t, i, keyword)
       IN  IF d # 0 THEN SubSeq(t, d, d + 4) ELSE sunFrom(t, i + 1, keyword)

sunriseOf(footerText) == sunFrom(footerText, 1, LeverDuSoleil)

\* the sunset is looked for only when a sunrise was found
sunsetOf_coupled(footerText) ==
  IF sunriseOf(footerText) = Undefined THEN Undefined
  ELSE sunFrom(footerText, 1, CoucherDuSoleil)

sunsetOf(footerText) == sunFrom(footerText, 1, CoucherDuSoleil)

parseTidePage(html) ==
  LET todayDate == todayDateOf(html.heading)
      today == parseTodayTable(html.todayRows, todayDate)
  IN  IF today.thrown
      THEN [thrown |-> TRUE, found |-> today.found]
      ELSE [thrown |-> FALSE,
            value |-> [todayDate |-> todayDate,
                       today     |-> today.day,
                       nextDays  |-> parseNextDaysTable(html.nextRows),
                       sunrise   |-> sunriseOf(html.footer),
                       sunset    |-> sunsetOf(html.footer)]]

---------------------------------------------------------------------------
(* fetchTideData *)

NoResult == [lowTime |-> <<>>, lowHeight |-> <<>>]
NoData == [none |-> TRUE]
NoError == [kind |-> "none", info |-> 0]
NoResponse == [ok |-> FALSE, status |-> 0]

FetchTideData ==
  /\ pc = "start"
  /\ IF ~res.ok
     THEN /\ err' = [kind |-> "fetch", info |-> res.status]
          /\ pc' = "thrown"
          /\ data' = data
     ELSE LET parsed == parseTidePage(res.html)
          IN  IF parsed.thrown
              THEN /\ err' = [kind |-> "cells", info |-> parsed.found]
                   /\ pc' = "thrown"
                   /\ data' = data
              ELSE /\ data' = parsed.value
                   /\ pc' = "returned"
                   /\ err' = err
  /\ UNCHANGED <<res, text, th>>

NextPage == FetchTideData

---------------------------------------------------------------------------
(* Documents *)

\* the six tide cells of a row: the documented data row, and a row of
\* header words and damaged cells
TideCells(v) ==
  IF v = 1
  THEN << <<"7", "3">>, <<"0", "3", "h", "4", "9", " ", "1", ",", "1", "7", " ", "m">>, <<"1", "0", "h", "1", "2", " ", "6", ",", "4", "5", " ", "m">>,
          <<"7", "5">>, <<"1", "6", "h", "0", "2", " ", "1", ",", "2", "0", " ", "m">>, <<"2", "2", "h", "3", "0", " ", "6", ",", "5", "0", " ", "m">> >>
  ELSE << <<"C", "o", "e", "f", "f", ".">>, <<"B", "a", "s", "s", "e", " ", "m", "e", "r">>, <<",", " ", "m">>,
          <<"9", "6">>, <<"1", "7", "h", "0", "5", " ", " ", "1", "m">>, <<"2", "3", "h", "2", "0">> >>

Variants == {1, 2}

TodayRow(v, n) == [i \in 1..n |-> TideCells(v)[((i - 1) % 6) + 1]]

LabelCell(v) == IF v = 1 THEN <<" ", "D", "e", "m", "a", "i", "n", " ", "v", "e", "n", "d", "r", "e", "d", "i", " ", "5", " ">> ELSE <<"D", "a", "t", "e">>

ForecastRow(v, n) ==
  [i \in 1..n |-> IF i = 1 THEN LabelCell(v)
                  ELSE TideCells(v)[((i - 2) % 6) + 1]]

TablesOf(rowSet, maxRows) == UNION {[1..n -> rowSet] : n \in 0..maxRows}

\* numbers of td cells of a row: none (a row of th cells), too few, enough, more
TodayCellCounts == {0, 5, 6, 7}
ForecastCellCounts == {0, 6, 7, 8}

TodayRows == {TodayRow(v, n) : v \in Variants, n \in TodayCellCounts}
ForecastRows == {ForecastRow(v, n) : v \in Variants, n \in ForecastCellCounts}

GoodToday == << TodayRow(2, 6), TodayRow(1, 6) >>

Headings == { <<>>, <<"M", "a", "r", "é", "e", " ", "a", "u", "j", "o", "u", "r", "d", "'", "h", "u", "i", " ", "j", "e", "u", "d", "i", " ", "4", " ", "d", "é", "c", "e", "m", "b", "r", "e", " ", "2", "0", "2", "5">> }

FooterSamples ==
  { <<>>,
    <<"H", "o", "r", "a", "i", "r", "e", " ", "L", "e", "v", "e", "r", " ", "d", "u", " ", "s", "o", "l", "e", "i", "l", " ", "V", "e", "r", "-", "s", "u", "r", "-", "m", "e", "r", " ", ":", " ", "0", "8", ":", "4", "4", " ", "C", "o", "u", "c", "h", "e", "r", " ", "d", "u", " ", "s", "o", "l", "e", "i", "l", " ", "V", "e", "r", "-", "s", "u", "r", "-", "m", "e", "r", " ", ":", " ", "1", "7", ":", "0", "2">>,
    <<"C", "o", "u", "c", "h", "e", "r", " ", "d", "u", " ", "s", "o", "l", "e", "i", "l", " ", ":", " ", "1", "7", ":", "0", "2">> }

NextSamples ==
  { <<>>,
    << ForecastRow(2, 3), ForecastRow(2, 6) >>,
    << ForecastRow(2, 6), ForecastRow(1, 7), ForecastRow(2, 7) >> }

\* pieces of forecast labels
LabelTokens ==
  { <<" ">>, <<"D", "e", "m", "a", "i", "n">>, <<"D", "E", "M", "A", "I", "N">>, <<"D", "e", "m">>, <<"l", "u", "n", "d", "i", " ", "5">>, <<"\n">> }

RECURSIVE Concat(_)
Concat(pieces) ==
  IF pieces = <<>> THEN <<>> ELSE Head(pieces) \o Concat(Tail(pieces))

LabelTexts == {Concat(p) : p \in TablesOf(LabelTokens, MaxLabelTokens)}

\* pieces of footer texts
FooterTokens ==
  { <<"L", "e", "v", "e", "r", " ", "d", "u", " ", "s", "o", "l", "e", "i", "l">>, <<"c", "o", "u", "c", "h", "e", "r", " ", "D", "U", " ", "s", "o", "l", "e", "i", "l">>, <<" ", "V", "e", "r", "-", "s", "u", "r", "-", "m", "e", "r", " ">>,
    <<":", " ", "0", "8", ":", "4", "4">>, <<":", "1", "7", ":", "0", "2">>, <<":">> }

FooterTexts == {Concat(p) : p \in TablesOf(FooterTokens, MaxFooterTokens)}

Document(heading, todayRows, nextRows, footer) ==
  [heading |-> heading, todayRows |-> todayRows,
   nextRows |-> nextRows, footer |-> footer]

\* documents whose table of today varies
TodayDocuments ==
  {Document(h, t, n, f) : h \in Headings, t \in TablesOf(TodayRows, MaxRows),
                          n \in NextSamples, f \in FooterSamples}

\* documents whose forecast table varies
ForecastDocuments ==
  {Document(<<>>, GoodToday, n, <<>>) :
     n \in TablesOf(ForecastRows, MaxNextRows)
           \cup {<< [ForecastRow(1, 7) EXCEPT ![1] = l] >> : l \in LabelTexts}}
  \cup {Document(<<>>, <<>>, <<>>, <<>>)}

\* documents whose footer varies
FooterDocuments ==
  {Document(<<>>, GoodToday, <<>>, f) : f \in FooterTexts}
  \cup {Document(<<>>, <<>>, <<>>, <<>>)}

\* res of fetch: a failed response, or a document
Responses(documents) ==
  {[ok |-> FALSE, status |-> 503]}
  \cup {[ok |-> TRUE, status |-> 200, html |-> d] : d \in documents}

InitOn(documents) ==
  /\ res \in Responses(documents)
  /\ pc = "start"
  /\ data = NoData
  /\ err = NoError
  /\ text = <<>>
  /\ th = NoResult

Init == InitOn(TodayDocuments)
InitForecast == InitOn(ForecastDocuments)
InitFooter == InitOn(FooterDocuments)

Spec == Init /\ [][NextPage]_vars
SpecForecast == InitForecast /\ [][NextPage]_vars
SpecFooter == InitFooter /\ [][NextPage]_vars

---------------------------------------------------------------------------
(* The cell parsers applied to every short text *)

CellAlphabet == {"1", "h", ",", "m", " ", "x"}

CellSamples ==
  { <<"0", "3", "h", "4", "9", " ", "1", ",", "1", "7", " ", "m">>, <<"1", ",", "1", "7", " ", "m", " ", "0", "3", "h", "4", "9">>, <<"0", "3", "h", "4", "9", " ", "x", " ", "1", ",", "1", "7", " ", " ", " ", " ", "m">>,
    <<"1", "2", "h", "3", "4", " ", "2", "1", "h", "4", "3">>, <<"1", ",", "2", ",", "3", " ", "m">>, <<",", " ", "m", " ", "2", " ", "m">>, <<"B", "a", "s", "s", "e", " ", "m", "e", "r">>, <<"7", "m">> }

CellTexts ==
  UNION {[1..n -> CellAlphabet] : n \in 0..MaxLen} \cup CellSamples

InitCell ==
  /\ text \in CellTexts
  /\ th = NoResult
  /\ pc = "start"
  /\ res = NoResponse
  /\ data = NoData
  /\ err = NoError

CallParseTimeHeight ==
  /\ pc = "start"
  /\ th' = parseTimeHeight(text)
  /\ pc' = "parsed"
  /\ UNCHANGED <<res, data, err, text>>

NextCell == CallParseTimeHeight

SpecCell == InitCell /\ [][NextCell]_vars

---------------------------------------------------------------------------
(* The height and time shapes the specification words describe *)

AllDigits(t, i, e) == i <= e /\ e <= Len(t) /\ \A p \in i..e : IsDigit(t[p])

\* t[i..e] is a digit run with at most one comma-decimal part
NumberAt(t, i, e) ==
  \/ AllDigits(t, i, e)
  \/ \E c \in (i + 1)..(e - 1) :
       AllDigits(t, i, c - 1) /\ t[c] = "," /\ AllDigits(t, c + 1, e)

\* optional whitespace and the letter m follow position e
UnitFollows(t, e) ==
  \E k \in (e + 1)..Len(t) :
    (\A p \in (e + 1)..(k - 1) : IsSpace(t[p])) /\ t[k] = "m"

\* digits, optionally a comma followed by digits, optional whitespace, m
ContainsHeight(t) ==
  \E i \in 1..Len(t) : \E e \in i..Len(t) :
    NumberAt(t, i, e) /\ UnitFollows(t, e)

ContainsTime(t) == \E i \in 1..Len(t) : TimeAt(t, i)

\* C6: a cell text without a height pattern (digits, optional comma and
\* digits, optional whitespace, m) gives the height sentinel "-- m".
C6_NoHeightGivesSentinel ==
  (pc = "parsed" /\ ~ContainsHeight(text)) => th.lowHeight = HeightSentinel

\* C7: a cell text with a height gives "<number> m", <number> being a
\* well-formed number of the text (a digit run with at most one
\* comma-decimal part), one space, then m.
C7_HeightIsNumberSpaceM ==
  (pc = "parsed" /\ ContainsHeight(text)) =>
    \E i \in 1..Len(text) : \E e \in i..Len(text) :
      /\ NumberAt(text, i, e)
      /\ th.lowHeight = SubSeq(text, i, e) \o <<" ", "m">>

\* C8: parseTimeHeight never throws; the time is "--" exactly when the text
\* has no substring (two digits, h, two digits), and the first such substring
\* otherwise, whatever height the text holds and wherever it stands.
C8_TimeIsFirstMatchOrSentinel ==
  pc = "parsed" =>
       /\ Len(th.lowTime) \in {2, 5}
       /\ (th.lowTime = TimeSentinel) <=> ~ContainsTime(text)
       /\ \A i \in 1..Len(text) :
            (TimeAt(text, i) /\ \A j \in 1..(i - 1) : ~TimeAt(text, j))
              => th.lowTime = SubSeq(text, i, i + 4)

\* a height stands before the time and the time is still found
C8_Witness ==
  /\ pc = "parsed"
  /\ ContainsHeight(text)
  /\ MatchHeight(text)[1] < MatchTime(text)
  /\ th.lowTime = SubSeq(text, MatchTime(text), MatchTime(text) + 4)

---------------------------------------------------------------------------
(* Properties of fetchTideData / parseTidePage *)

Extracted == pc # "start" /\ res.ok
Returned == pc = "returned"

\* number of td cells of the last row of today's table, 0 without a row
LastRowCells ==
  LET rows == res.html.todayRows
  IN  IF rows = <<>> THEN 0 ELSE Len(rows[Len(rows)])

AtLeastSeven(row) == Len(row) >= 7

\* the forecast rows that have at least 7 cells, in document order
Qualifying == SelectSeq(res.html.nextRows, AtLeastSeven)

\* the half-day is filled from its three cells, each field from its own cell
Positional(half, coeffCell, lowCell, highCell) ==
  /\ half.coeff = parseCoeff(coeffCell)
  /\ half.lowTime = parseTimeHeight(lowCell).lowTime
  /\ half.lowHeight = parseTimeHeight(lowCell).lowHeight
  /\ half.highTime = parseTimeHeight(highCell).lowTime
  /\ half.highHeight = parseTimeHeight(highCell).lowHeight

\* C1 as stated: extraction fails exactly when no row of today's table has
\* at least 6 cells.
C1_FailsIffNoRowHasSixCells ==
  Extracted =>
    ((pc = "thrown" /\ err.kind = "cells" /\ data = NoData)
       <=> \A i \in 1..Len(res.html.todayRows) : Len(res.html.todayRows[i]) < 6)

\* C1 amended: extraction fails with the missing-today-data error exactly
\* when the last row of today's table has fewer than 6 cells (no row counts
\* as 0 cells); then no TideData is returned, otherwise one is.
C1_FailsIffLastRowShort ==
  Extracted =>
    /\ (pc = "thrown") <=> (LastRowCells < 6)
    /\ pc = "thrown" =>
         err = [kind |-> "cells", info |-> LastRowCells] /\ data = NoData
    /\ pc = "returned" => err = NoError /\ data # NoData

\* the last row is too short although an earlier row has 6 cells
C1_Witness ==
  /\ Extracted
  /\ pc = "thrown"
  /\ data = NoData
  /\ \E i \in 1..Len(res.html.todayRows) : Len(res.html.todayRows[i]) >= 6

\* C2 as stated: today's data come from the last row that has exactly 6
\* cells, rows of another cell count being skipped wherever they stand.
C2_DataRowIsLastSixCellRow ==
  (Extracted /\ \E i \in 1..Len(res.html.todayRows) : Len(res.html.todayRows[i]) = 6) =>
    /\ Returned
    /\ LET rows == res.html.todayRows
           cells == rows[Max({i \in 1..Len(rows) : Len(rows[i]) = 6})]
       IN  /\ data.today.morning = halfDay(cells[1], cells[2], cells[3])
           /\ data.today.afternoon = halfDay(cells[4], cells[5], cells[6])

\* C2 amended: today's data come from the first 6 cells of the last row of
\* the table, whatever its cell count of 6 or more; earlier rows are passed
\* over by their position, not by a cell count.
C2_DataRowIsLastRow ==
  Returned =>
    LET rows == res.html.todayRows
        cells == rows[Len(rows)]
    IN  /\ Len(cells) >= 6
        /\ data.today.morning = halfDay(cells[1], cells[2], cells[3])
        /\ data.today.afternoon = halfDay(cells[4], cells[5], cells[6])

\* the last row has 7 cells and is used; an earlier row of exactly 6 cells
\* that would give other data is not
C2_Witness ==
  /\ Returned
  /\ LastRowCells = 7
  /\ \E i \in 1..(Len(res.html.todayRows) - 1) :
       LET cells == res.html.todayRows[i]
       IN  /\ Len(cells) = 6
           /\ data.today.morning # halfDay(cells[1], cells[2], cells[3])

\* C3: the forecast is one TideDay per row with at least 7 cells, in document
\* order, equal rows kept, any number of them; other rows give nothing and
\* never an error.
C3_OneDayPerQualifyingRow ==
  /\ (Extracted /\ LastRowCells >= 6) => Returned
  /\ Returned =>
       /\ Len(data.nextDays) = Len(Qualifying)
       /\ \A k \in 1..Len(Qualifying) : data.nextDays[k] = nextDay(Qualifying[k])

\* two equal qualifying rows around a short row give two equal days
C3_Witness ==
  /\ Returned
  /\ Len(res.html.nextRows) = 3
  /\ Len(res.html.nextRows[1]) >= 7
  /\ Len(res.html.nextRows[2]) < 7
  /\ res.html.nextRows[3] = res.html.nextRows[1]
  /\ Len(data.nextDays) = 2
  /\ data.nextDays[1] = data.nextDays[2]

ExampleMorning ==
  [coeff |-> 73, lowTime |-> <<"0", "3", "h", "4", "9">>, lowHeight |-> <<"1", ",", "1", "7", " ", "m">>,
   highTime |-> <<"1", "0", "h", "1", "2">>, highHeight |-> <<"6", ",", "4", "5", " ", "m">>]

ExampleAfternoon ==
  [coeff |-> 75, lowTime |-> <<"1", "6", "h", "0", "2">>, lowHeight |-> <<"1", ",", "2", "0", " ", "m">>,
   highTime |-> <<"2", "2", "h", "3", "0">>, highHeight |-> <<"6", ",", "5", "0", " ", "m">>]

\* C5: the six tide cells are mapped by position: coefficient, low, high for
\* the morning, then coefficient, low, high for the afternoon (cells 0..5 of
\* today's row, cells 1..6 of a forecast row); the documented row gives the
\* documented halves.
C5_CellsMappedByPosition ==
  Returned =>
    /\ LET cells == res.html.todayRows[Len(res.html.todayRows)]
       IN  /\ Positional(data.today.morning, cells[1], cells[2], cells[3])
           /\ Positional(data.today.afternoon, cells[4], cells[5], cells[6])
           /\ SubSeq(cells, 1, 6) = TideCells(1) =>
                /\ data.today.morning = ExampleMorning
                /\ data.today.afternoon = ExampleAfternoon
    /\ Len(data.nextDays) = Len(Qualifying)
    /\ \A k \in 1..Len(Qualifying) :
         LET cells == Qualifying[k]
         IN  /\ Positional(data.nextDays[k].morning, cells[2], cells[3], cells[4])
             /\ Positional(data.nextDays[k].afternoon, cells[5], cells[6], cells[7])
             /\ SubSeq(cells, 2, 7) = TideCells(1) =>
                  /\ data.nextDays[k].morning = ExampleMorning
                  /\ data.nextDays[k].afternoon = ExampleAfternoon

\* the documented row is today's row and a forecast row
C5_Witness ==
  /\ Returned
  /\ res.html.todayRows[Len(res.html.todayRows)] = TideCells(1)
  /\ data.today.morning = ExampleMorning
  /\ data.today.afternoon = ExampleAfternoon
  /\ \E k \in 1..Len(data.nextDays) :
       /\ SubSeq(Qualifying[k], 2, 7) = TideCells(1)
       /\ data.nextDays[k].afternoon = ExampleAfternoon

---------------------------------------------------------------------------
(* Shapes the claims about labels, footers and cells speak of *)

NoOuterSpace(l) == l = <<>> \/ (~IsSpace(l[1]) /\ ~IsSpace(l[Len(l)]))

IsNoSpace(c) == ~IsSpace(c)

NonSpace(t) == SelectSeq(t, IsNoSpace)

\* t begins with the marker "Demain", in any case
StartsWithMarker(t) == WordAt(t, 1, Demain)

\* core is t without the whitespace around it
IsTrimOf(core, t) ==
  /\ NoOuterSpace(core)
  /\ \E a \in 0..Len(t) : \E b \in a..Len(t) :
       /\ core = SubSeq(t, a + 1, b)
       /\ \A p \in 1..a : IsSpace(t[p])
       /\ \A p \in (b + 1)..Len(t) : IsSpace(t[p])

\* rest is t without the marker it begins with and the whitespace behind it
IsBehindMarker(rest, t) ==
  \E s \in Len(Demain)..Len(t) :
    /\ \A p \in (Len(Demain) + 1)..s : IsSpace(t[p])
    /\ s < Len(t) => ~IsSpace(t[s + 1])
    /\ rest = SubSeq(t, s + 1, Len(t))

\* C9 as stated: the label is cell 0 with a leading marker stripped if the
\* text starts with it, and trimmed after that; it has no outer whitespace,
\* and a text that does not start with the marker keeps all it holds.
C9_LabelStrippedThenTrimmed ==
  Returned =>
    \A k \in 1..Len(data.nextDays) :
      LET t == Qualifying[k][1]
          l == data.nextDays[k].label
      IN  /\ IsTrimOf(l, IF StartsWithMarker(t)
                         THEN SubSeq(t, Len(Demain) + 1, Len(t)) ELSE t)
          /\ NoOuterSpace(l)
          /\ ~StartsWithMarker(t) => NonSpace(l) = NonSpace(t)

\* C9 amended: the label is cell 0 trimmed first, and then without a
\* leading marker "Demain" (any case) and the whitespace behind it; it has no
\* outer whitespace, and a text whose trimmed form does not start with the
\* marker keeps all it holds.
C9_LabelTrimmedThenStripped ==
  Returned =>
    /\ Len(data.nextDays) = Len(Qualifying)
    /\ \A k \in 1..Len(Qualifying) :
         LET t == Qualifying[k][1]
             l == data.nextDays[k].label
         IN  /\ \E a \in 0..Len(t) : \E b \in a..Len(t) :
                  LET core == SubSeq(t, a + 1, b)
                  IN  /\ IsTrimOf(core, t)
                      /\ IF StartsWithMarker(core) THEN IsBehindMarker(l, core)
                         ELSE l = core /\ NonSpace(l) = NonSpace(t)
             /\ NoOuterSpace(l)

\* whitespace stands before the marker and the marker is stripped all the same
C9_Witness ==
  /\ Returned
  /\ \E k \in 1..Len(data.nextDays) :
       LET t == Qualifying[k][1]
           l == data.nextDays[k].label
       IN  /\ t # <<>>
           /\ IsSpace(t[1])
           /\ ~StartsWithMarker(t)
           /\ l # <<>>
           /\ NonSpace(l) # NonSpace(t)

\* keyword, text free of colons, a colon, optional whitespace and HH:MM at d
SunPatternAt(t, i, keyword, d) ==
  /\ WordAt(t, i, keyword)
  /\ ClockAt(t, d)
  /\ \E c \in (i + Len(keyword))..(d - 1) :
       /\ t[c] = ":"
       /\ \A p \in (i + Len(keyword))..(c - 1) : t[p] # ":"
       /\ \A p \in (c + 1)..(d - 1) : IsSpace(t[p])

HasSunPattern(t, keyword) ==
  \E i \in 1..Len(t) : WordAt(t, i, keyword) /\
    \E d \in i..Len(t) : SunPatternAt(t, i, keyword, d)

\* v is the HH:MM of the first place the pattern of the keyword is found at,
\* and undefined when there is none
IsSunValue(v, t, keyword) ==
  /\ (v # Undefined) <=> HasSunPattern(t, keyword)
  /\ v # Undefined =>
       \E i \in 1..Len(t) : WordAt(t, i, keyword) /\
         \E d \in i..Len(t) :
           /\ SunPatternAt(t, i, keyword, d)
           /\ v = SubSeq(t, d, d + 4)
           /\ \A j \in 1..(i - 1) : WordAt(t, j, keyword) =>
                \A e \in j..Len(t) : ~SunPatternAt(t, j, keyword, e)

\* C10: sunrise and sunset are decided each from its own pattern: the HH:MM
\* behind the keyword, a colon and optional whitespace when the footer holds
\* the pattern, undefined when not, whatever holds for the other field.
C10_SunriseSunsetIndependent ==
  Returned =>
    /\ IsSunValue(data.sunrise, res.html.footer, LeverDuSoleil)
    /\ IsSunValue(data.sunset, res.html.footer, CoucherDuSoleil)

\* the sunrise keyword is there without its time, the sunset is found
C10_Witness ==
  /\ Returned
  /\ \E i \in 1..Len(res.html.footer) : WordAt(res.html.footer, i, LeverDuSoleil)
  /\ data.sunrise = Undefined
  /\ data.sunset = <<"1", "7", ":", "0", "2">>

HasDigit(t) == \E i \in 1..Len(t) : IsDigit(t[i])

\* the cell has none of the three shapes and the half-day holds the sentinels
SentinelsFor(half, coeffCell, lowCell, highCell) ==
  /\ ~HasDigit(coeffCell) => half.coeff = 0
  /\ ~ContainsTime(lowCell) => half.lowTime = TimeSentinel
  /\ ~ContainsTime(highCell) => half.highTime = TimeSentinel
  /\ ~ContainsHeight(lowCell) => half.lowHeight = HeightSentinel
  /\ ~ContainsHeight(highCell) => half.highHeight = HeightSentinel

FourFieldsSet(half) ==
  /\ half.lowTime # <<>>
  /\ half.lowHeight # <<>>
  /\ half.highTime # <<>>
  /\ half.highHeight # <<>>

\* C4: with today's data row there, parseTidePage returns a TideData of full
\* shape and raises nothing: no heading gives the empty date, no qualifying
\* forecast row the empty nextDays, no sunrise or sunset pattern an undefined
\* field, a damaged cell the sentinels 0, "--" and "-- m"; the four text
\* fields of every half-day are set.
C4_FullShapeWithSentinels ==
  (Extracted /\ LastRowCells >= 6) =>
    /\ Returned
    /\ res.html.heading = <<>> => data.todayDate = <<>>
    /\ Len(Qualifying) = 0 => data.nextDays = <<>>
    /\ ~HasSunPattern(res.html.footer, LeverDuSoleil) => data.sunrise = Undefined
    /\ ~HasSunPattern(res.html.footer, CoucherDuSoleil) => data.sunset = Undefined
    /\ LET cells == res.html.todayRows[Len(res.html.todayRows)]
       IN  /\ SentinelsFor(data.today.morning, cells[1], cells[2], cells[3])
           /\ SentinelsFor(data.today.afternoon, cells[4], cells[5], cells[6])
    /\ FourFieldsSet(data.today.morning)
    /\ FourFieldsSet(data.today.afternoon)
    /\ \A k \in 1..Len(data.nextDays) :
         /\ FourFieldsSet(data.nextDays[k].morning)
         /\ FourFieldsSet(data.nextDays[k].afternoon)

====
